---- MODULE Spec2Model ----
(***************************************************************************)
(* LX Eos driver (XCSoar, src/Device/Driver/LX_EOS): the foreground thread *)
(* runs one driver operation at a time (ReadFlightList, DownloadFlight,    *)
(* PutMacCready, PutBugs, EnableNMEA); the port's receive thread passes    *)
(* incoming NMEA lines to ParseNMEA while it is running; LinkTimeout is an *)
(* event of the device manager.                                            *)
(*                                                                         *)
(* Units: the numeric fields of a sentence and mc, bal, bugs of the mirror *)
(* are in hundredths; the application's bugs fraction is in 1/10000;       *)
(* speeds in m/s are in 1/1800 m/s (1 km/h = 5/18 m/s); the filtered vario *)
(* is in 1e-6 m/s; altitudes converted from feet are in 1e-6 m.            *)
(***************************************************************************)
EXTENDS Integers, Sequences, FiniteSets, TLC

\* ------------------------------------------------------------------ bounds

\* largest file_size of a flight handed to DownloadFlight
MaxFileSize == 3

\* largest block size the device declares in a block response
MaxBlockSize == 2

\* largest flight count the device reports
MaxFlights == 2

\* width of the block counter; uint16_t block_id in the source, modelled
\* with wrap-around at 2^BlockIdBits so that the wrap is within reach
BlockIdBits == 2

BlockIdModulus == 2 ^ BlockIdBits

\* longest message over CrcBytes handed to CalculateCRC directly
MaxCrcLen == 3

\* payload bytes the device sends in a block
PayloadBytes == {65, 66}

\* ------------------------------------------------------- program constants

\* attempts per flight-info request and per block request
MaxAttempts == 5

ACK == 6

NACK == 21

CRC_POLY == 105

CRC_SEED == 255

\* ---------------------------------------------------------------- CRC8

\* bit k (of weight w = 2^k) of a ^ b
XorBit(a, b, w) == (((a \div w) + (b \div w)) % 2) * w

\* a ^ b on uint8_t
Xor8(a, b) ==
  XorBit(a, b, 1) + XorBit(a, b, 2) + XorBit(a, b, 4) + XorBit(a, b, 8)
  + XorBit(a, b, 16) + XorBit(a, b, 32) + XorBit(a, b, 64) + XorBit(a, b, 128)

\* the inner loop of CalculateCRC: count bits of d, most significant first;
\* result and d are uint8_t, tmp80 is (result ^ d) & 0x80
RECURSIVE CRCBits(_, _, _)
CRCBits(result, d, count) ==
  IF count = 0 \/ result \notin 0..255 \/ d \notin 0..255 THEN result
  ELSE LET tmp80   == XorBit(result, d, 128)
           shifted == (result * 2) % 256
           next    == IF tmp80 # 0 THEN Xor8(shifted, CRC_POLY) ELSE shifted
       IN  CRCBits(next, (d * 2) % 256, count - 1)

RECURSIVE CRCFrom(_, _, _)
CRCFrom(msg, byte, result) ==
  IF byte > Len(msg) \/ result \notin 0..255 THEN result
  ELSE CRCFrom(msg, byte + 1, CRCBits(result, msg[byte], 8))

\* every call seeded with 0xFF, whatever `initial`
CalculateCRC_SeedIgnored(msg, initial) == CRCFrom(msg, 1, CRC_SEED)

CalculateCRC(msg, initial) == CRCFrom(msg, 1, initial)

\* ------------------------------------------------------------------ state

VARIABLES
  pc,              \* position of the foreground thread
  op,              \* the operation the foreground thread runs or ran last
  ret,             \* its result: "none", "true", "false", "throw"
  exit_at,         \* the return statement it left by
  rx_running,      \* the port's receive thread is running (not paused)
  success,         \* local `success` of ReadFlightList / DownloadFlight
  attempt,         \* local `attempt` of the retry loop
  file_size,       \* flight.internal.lx_eos.file_size
  bytes_remaining, \* local of DownloadFlight
  block_id,        \* local of DownloadFlight
  block,           \* local AllocatedArray `block` of DownloadFlight
  glb_exit,        \* the return statement the last GetFlightLogBlock left by
  bos,             \* bytes written to the BufferedOutputStream
  fos,             \* the FileOutputStream: "none", "open", "committed"
  progress,        \* last env.SetProgressPosition
  flight_count,    \* local of ReadFlightList
  i,               \* loop index of ReadFlightList
  flight_list,     \* the caller's RecordedFlightList
  vario_settings,  \* the settings mirror
  settings_mutex,  \* "free" or the thread holding it
  port_out,        \* NMEA sentences written to the port by the running call
  info,            \* the NMEAInfo the parser writes into
  parse_ret,       \* result of the last ParseNMEA: "none", "true", "false"
  rx_pc,           \* position of the receive thread inside ParseNMEA
  rx_line,         \* the line last handed to ParseNMEA
  call             \* the last direct call of a helper: function, argument, result

vars == <<pc, op, ret, exit_at, rx_running, success, attempt, file_size,
          bytes_remaining, block_id, block, glb_exit, bos, fos, progress,
          flight_count, i, flight_list, vario_settings, settings_mutex,
          port_out, info, parse_ret, rx_pc, rx_line, call>>

dl_vars == <<file_size, bytes_remaining, block_id, block, glb_exit, bos, fos>>

rl_vars == <<flight_count, i, flight_list>>

set_vars == <<vario_settings, settings_mutex, port_out, info, parse_ret>>

rx_vars == <<rx_pc, rx_line>>

\* ------------------------------------------------- binary command protocol

\* what the port does during one exchange: a fault of FullFlush or FullWrite,
\* else the handshake byte that arrives (hs_byte, -1 for none within the
\* timeout), else the response that follows
Exchange(fault, hs_byte) == [fault |-> fault, hs_byte |-> hs_byte]

\* port.WaitForByte(0x06): returns when the ACK byte arrived, throws otherwise
WaitForByte(x) == IF x.hs_byte = ACK THEN "ok" ELSE "throw"

\* the try block around WaitForByte left out
WriteAndWaitForACK_NoCatch(x) ==
  IF x.fault \in {"flush", "write"} THEN "throw"
  ELSE IF WaitForByte(x) = "throw" THEN "throw"
  ELSE "true"

\* "throw": the fault of FullFlush / FullWrite leaves the function
WriteAndWaitForACK(x) ==
  IF x.fault \in {"flush", "write"} THEN "throw"
  ELSE IF WaitForByte(x) = "throw" THEN "false"
  ELSE "true"

\* the port calls WriteAndWaitForACK makes, in order: a fault ends them
PortCalls(x) ==
  IF x.fault = "flush" THEN <<"FullFlush">>
  ELSE IF x.fault = "write" THEN <<"FullFlush", "FullWrite">>
  ELSE <<"FullFlush", "FullWrite", "WaitForByte">>

LE16(lo, hi) == lo + 256 * hi

\* the handshake outcomes that end an exchange before any response is read
FailedExchanges ==
  {Exchange("flush", -1), Exchange("write", -1), Exchange("none", -1),
   Exchange("none", NACK), Exchange("none", 0)}

\* ------------------------------------------------------ GetFlightLogBlock

RECURSIVE SeqsOfLen(_, _)
SeqsOfLen(S, n) ==
  IF n = 0 THEN {<<>>}
  ELSE {Append(q, b) : q \in SeqsOfLen(S, n - 1), b \in S}

\* the trailer the device appends to `bytes`: their CRC, as in data.crc
Trailer(bytes) == CalculateCRC(bytes, CRC_SEED)

\* a block response as the device frames it: 4 header bytes after the
\* handshake byte, `size` payload bytes, one trailer byte; read names the
\* FullRead / WaitAndRead that times out ("ok": none)
BlockResponse(x, id, payload, read, crc_good) ==
  LET header == <<Len(payload) % 256, Len(payload) \div 256,
                  id % 256, id \div 256>>
      good   == Trailer(<<ACK>> \o header \o payload)
  IN  [x |-> x, header |-> header, payload |-> payload, read |-> read,
       crc_byte |-> IF crc_good THEN good ELSE (good + 1) % 256]

\* the behaviours of the port and the device during GetFlightLogBlock
BlockResponses ==
  {BlockResponse(x, 0, <<>>, "ok", TRUE) : x \in FailedExchanges}
  \cup
  {BlockResponse(Exchange("none", ACK), id, payload, "ok", TRUE) :
     id \in 0..(BlockIdModulus - 1),
     payload \in UNION {SeqsOfLen(PayloadBytes, n) : n \in 0..MaxBlockSize}}
  \cup
  {BlockResponse(Exchange("none", ACK), id, payload, read, crc_good) :
     id \in 0..(BlockIdModulus - 1),
     payload \in SeqsOfLen({65}, 1),
     read \in {"ok", "header", "payload", "crc"},
     crc_good \in BOOLEAN}

\* lines 244-246: the CRC chained over header, block and trailer, tabulated
\* over the responses
BlockCRC ==
  [r \in BlockResponses |->
     LET responseHeader == <<ACK>> \o r.header
         size           == r.header[1] + 256 * r.header[2]
         crc            == CalculateCRC(responseHeader, CRC_SEED)
         crc2           == CalculateCRC(SubSeq(r.payload, 1, size), crc)
     IN  CalculateCRC(<<r.crc_byte>>, crc2)]

\* the id check left out
IdMatches_Always(id, requested) == TRUE

\* the check of the received block id against the requested one
IdMatches(id, requested) == id = requested

\* result of GetFlightLogBlock: ret, the return statement taken (exit) and
\* the contents of `block` afterwards
GetFlightLogBlock(blk, requested, r) ==
  LET ack            == WriteAndWaitForACK(r.x)
      responseHeader == <<ACK>> \o r.header
      size           == LE16(responseHeader[2], responseHeader[3])
      id             == LE16(responseHeader[4], responseHeader[5])
      data           == SubSeq(r.payload, 1, size)
  IN  IF ack = "throw" THEN [ret |-> "throw", exit |-> "throw", block |-> blk]
      ELSE IF ack = "false" THEN [ret |-> "false", exit |-> "ack", block |-> blk]
      ELSE IF r.read = "header"
        THEN [ret |-> "false", exit |-> "header", block |-> blk]
      ELSE IF ~IdMatches(id, requested)
        THEN [ret |-> "false", exit |-> "id", block |-> blk]
      ELSE IF r.read = "payload"
        THEN [ret |-> "false", exit |-> "payload", block |-> data]
      ELSE IF r.read = "crc"
        THEN [ret |-> "false", exit |-> "crcread", block |-> data]
      ELSE IF BlockCRC[r] # 0
        THEN [ret |-> "false", exit |-> "crc", block |-> data]
      ELSE [ret |-> "true", exit |-> "ok", block |-> data]

\* --------------------------------------------------------- DownloadFlight

\* the guard left out
BlockTooLarge_Never(size, remaining) == FALSE

\* the guard against underflow of bytes_remaining
BlockTooLarge(size, remaining) == size > remaining

\* percent downloaded, floored; the code computes it in float, which gives
\* this value for every total below 5 (5 with 3 remaining gives 39)
Progress(remaining, total) == (100 * (total - remaining)) \div total

\* the loop condition of the block loop
MoreBlocks(remaining) == remaining > 0

\* one attempt too many
MayAttempt_OffByOne(n) == n <= MaxAttempts

\* the retry loop's condition
MayAttempt(n) == n < MaxAttempts

\* block_id++ on a uint16_t
NextBlockId(id) == (id + 1) % BlockIdModulus

\* locals of the operations that are not running
NoDownload ==
  /\ file_size' = 0
  /\ bytes_remaining' = 0
  /\ block_id' = 0
  /\ block' = <<>>
  /\ glb_exit' = "none"
  /\ bos' = <<>>
  /\ fos' = "none"

NoFlightList ==
  /\ flight_count' = 0
  /\ i' = 0
  /\ flight_list' = <<>>

\* a fault of FullFlush / FullWrite leaves the running operation
Thrown ==
  /\ pc' = "idle"
  /\ ret' = "throw"
  /\ exit_at' = "throw"

\* the receive thread left running: StopRxThread left out
DownloadFlight_Begin_NoStop(size) ==
  /\ pc = "idle"
  /\ op' = "DownloadFlight"
  /\ ret' = "none"
  /\ exit_at' = "none"
  /\ fos' = "open"
  /\ bos' = <<>>
  /\ success' = TRUE
  /\ rx_running' = rx_running
  /\ file_size' = size
  /\ bytes_remaining' = size
  /\ progress' = 0
  /\ block_id' = 0
  /\ block' = <<>>
  /\ glb_exit' = "none"
  /\ attempt' = 0
  /\ pc' = IF MoreBlocks(size) THEN "dl_request" ELSE "dl_end"
  /\ port_out' = <<>>
  /\ NoFlightList
  /\ UNCHANGED <<vario_settings, settings_mutex, info, parse_ret>>
  /\ rx_pc = "idle"
  /\ UNCHANGED rx_vars
  /\ UNCHANGED call

\* lines 59-72: open the file, pause the receiver, enter the block loop
DownloadFlight_Begin(size) ==
  /\ pc = "idle"
  /\ op' = "DownloadFlight"
  /\ ret' = "none"
  /\ exit_at' = "none"
  /\ fos' = "open"
  /\ bos' = <<>>
  /\ success' = TRUE
  /\ rx_running' = FALSE
  /\ file_size' = size
  /\ bytes_remaining' = size
  /\ progress' = 0
  /\ block_id' = 0
  /\ block' = <<>>
  /\ glb_exit' = "none"
  /\ attempt' = 0
  /\ pc' = IF MoreBlocks(size) THEN "dl_request" ELSE "dl_end"
  /\ port_out' = <<>>
  /\ NoFlightList
  /\ UNCHANGED <<vario_settings, settings_mutex, info, parse_ret>>
  /\ rx_pc = "idle"
  /\ UNCHANGED rx_vars
  /\ UNCHANGED call

\* lines 77-84: one attempt of the retry loop
DownloadFlight_Attempt(r) ==
  /\ pc = "dl_request"
  /\ MayAttempt(attempt)
  /\ LET got == GetFlightLogBlock(block, block_id, r)
     IN  /\ glb_exit' = got.exit
         /\ block' = got.block
         /\ IF got.ret = "throw"
              THEN /\ Thrown
                   /\ UNCHANGED <<success, attempt>>
              ELSE /\ success' = (got.ret = "true")
                   /\ attempt' = IF got.ret = "true" THEN attempt ELSE attempt + 1
                   /\ pc' = IF got.ret = "true" THEN "dl_write"
                            ELSE IF MayAttempt(attempt + 1) THEN "dl_request"
                            ELSE "dl_end"
                   /\ UNCHANGED <<ret, exit_at>>
  /\ UNCHANGED <<op, rx_running, file_size, bytes_remaining, block_id, bos,
                 fos, progress>>
  /\ UNCHANGED rl_vars
  /\ UNCHANGED set_vars
  /\ UNCHANGED rx_vars
  /\ UNCHANGED call

\* lines 86-99: write the block, account for it, next loop iteration
DownloadFlight_Write ==
  /\ pc = "dl_write"
  /\ bos' = bos \o block
  /\ IF BlockTooLarge(Len(block), bytes_remaining)
       THEN /\ pc' = "idle"
            /\ ret' = "false"
            /\ exit_at' = "oversize"
            /\ UNCHANGED <<bytes_remaining, progress, block_id, attempt, block>>
       ELSE /\ bytes_remaining' = bytes_remaining - Len(block)
            /\ progress' = Progress(bytes_remaining - Len(block), file_size)
            /\ block_id' = NextBlockId(block_id)
            /\ block' = <<>>
            /\ attempt' = 0
            /\ pc' = IF MoreBlocks(bytes_remaining - Len(block))
                       THEN "dl_request" ELSE "dl_end"
            /\ UNCHANGED <<ret, exit_at>>
  /\ UNCHANGED <<op, rx_running, success, file_size, glb_exit, fos>>
  /\ UNCHANGED rl_vars
  /\ UNCHANGED set_vars
  /\ UNCHANGED rx_vars
  /\ UNCHANGED call

\* the commit not guarded by success
DownloadFlight_End_AlwaysCommit ==
  /\ pc = "dl_end"
  /\ fos' = "committed"
  /\ progress' = 100
  /\ rx_running' = TRUE
  /\ ret' = IF success THEN "true" ELSE "false"
  /\ exit_at' = "end"
  /\ pc' = "idle"
  /\ UNCHANGED <<op, success, attempt, file_size, bytes_remaining, block_id,
                 block, glb_exit, bos>>
  /\ UNCHANGED rl_vars
  /\ UNCHANGED set_vars
  /\ UNCHANGED rx_vars
  /\ UNCHANGED call

\* lines 101-111: commit on success, resume the receiver, return
DownloadFlight_End ==
  /\ pc = "dl_end"
  /\ fos' = IF success THEN "committed" ELSE fos
  /\ progress' = 100
  /\ rx_running' = TRUE
  /\ ret' = IF success THEN "true" ELSE "false"
  /\ exit_at' = "end"
  /\ pc' = "idle"
  /\ UNCHANGED <<op, success, attempt, file_size, bytes_remaining, block_id,
                 block, glb_exit, bos>>
  /\ UNCHANGED rl_vars
  /\ UNCHANGED set_vars
  /\ UNCHANGED rx_vars
  /\ UNCHANGED call

\* --------------------------------------------- GetNumberOfFlights, GetFlightInfo

RECURSIVE Zeros(_)
Zeros(n) == IF n = 0 THEN <<>> ELSE Append(Zeros(n - 1), 0)

\* a uint32_t as memcpy lays it out on the little-endian host
LE32Bytes(v) ==
  <<v % 256, (v \div 256) % 256, (v \div 65536) % 256, (v \div 16777216) % 256>>

LE32(b, at) ==
  b[at] + 256 * b[at + 1] + 65536 * b[at + 2] + 16777216 * b[at + 3]

\* the response to get-flight-count after the handshake byte: count, CRC
CountResponse(x, count, read, crc_good) ==
  LET good == Trailer(<<ACK, count>>)
  IN  [x |-> x, read |-> read,
       bytes |-> <<count, IF crc_good THEN good ELSE (good + 1) % 256>>]

CountResponses ==
  {CountResponse(x, 0, "ok", TRUE) : x \in FailedExchanges}
  \cup
  {CountResponse(Exchange("none", ACK), count, read, crc_good) :
     count \in 0..MaxFlights, read \in {"ok", "timeout"}, crc_good \in BOOLEAN}

\* line 137: the CRC of the response, tabulated over the responses
CountCRC == [r \in CountResponses |-> CalculateCRC(<<ACK>> \o r.bytes, CRC_SEED)]

\* the count taken from the response without the CRC check
GetNumberOfFlights_NoCRC(count, r) ==
  LET ack      == WriteAndWaitForACK(r.x)
      response == <<ACK>> \o r.bytes
  IN  IF ack = "throw" THEN [ret |-> "throw", flight_count |-> count]
      ELSE IF ack = "false" THEN [ret |-> "false", flight_count |-> count]
      ELSE IF r.read = "timeout" THEN [ret |-> "false", flight_count |-> count]
      ELSE [ret |-> "true", flight_count |-> response[2]]

\* result of GetNumberOfFlights: ret and flight_count afterwards
GetNumberOfFlights(count, r) ==
  LET ack      == WriteAndWaitForACK(r.x)
      response == <<ACK>> \o r.bytes
  IN  IF ack = "throw" THEN [ret |-> "throw", flight_count |-> count]
      ELSE IF ack = "false" THEN [ret |-> "false", flight_count |-> count]
      ELSE IF r.read = "timeout" THEN [ret |-> "false", flight_count |-> count]
      ELSE IF CountCRC[r] # 0
        THEN [ret |-> "false", flight_count |-> count]
      ELSE [ret |-> "true", flight_count |-> response[2]]

\* the 93 bytes after the handshake byte of a flight-info response:
\* julianDate at response[13], time_takeoff at [17], time_landing at [21],
\* file_size at [89], CRC at [93]
InfoResponse(x, julian, takeoff, landing, size, read, crc_good) ==
  LET body == Zeros(12) \o LE32Bytes(julian) \o LE32Bytes(takeoff)
                \o LE32Bytes(landing) \o Zeros(64) \o LE32Bytes(size)
      good == Trailer(<<ACK>> \o body)
  IN  [x |-> x, read |-> read,
       bytes |-> Append(body, IF crc_good THEN good ELSE (good + 1) % 256)]

InfoResponses ==
  {InfoResponse(x, 0, 0, 0, 0, "ok", TRUE) : x \in FailedExchanges}
  \cup
  {InfoResponse(Exchange("none", ACK), 2460000, 36000, 43200,
                size, read, crc_good) :
     size \in {0, MaxFileSize}, read \in {"ok", "timeout"}, crc_good \in BOOLEAN}

\* line 172: the CRC of the response, tabulated over the responses
InfoCRC == [r \in InfoResponses |-> CalculateCRC(<<ACK>> \o r.bytes, CRC_SEED)]

julianToDate(julian_date) ==
  LET a == julian_date + 32044
      b == (4 * a + 3) \div 146097
      c == a - (146097 * b) \div 4
      d == (4 * c + 3) \div 1461
      e == c - (1461 * d) \div 4
      m == (5 * e + 2) \div 153
  IN  [day |-> e - (153 * m + 2) \div 5 + 1,
       month |-> m + 3 - 12 * (m \div 10),
       year |-> 100 * b + d - 4800 + (m \div 10)]

\* the flight id taken from the message instead of the index
GetFlightInfo_IdFromMessage(index, flight, r) ==
  LET ack      == WriteAndWaitForACK(r.x)
      response == <<ACK>> \o r.bytes
  IN  IF index = 0 THEN [ret |-> "false", flight |-> flight]
      ELSE IF ack = "throw" THEN [ret |-> "throw", flight |-> flight]
      ELSE IF ack = "false" THEN [ret |-> "false", flight |-> flight]
      ELSE IF r.read = "timeout" THEN [ret |-> "false", flight |-> flight]
      ELSE IF InfoCRC[r] # 0
        THEN [ret |-> "false", flight |-> flight]
      ELSE [ret |-> "true",
            flight |-> [flight_id |-> LE16(response[2], response[3]),
                        date |-> julianToDate(LE32(response, 14)),
                        start_time |-> LE32(response, 18),
                        end_time |-> LE32(response, 22),
                        file_size |-> LE32(response, 90)]]

\* result of GetFlightInfo: ret and `flight` afterwards
GetFlightInfo(index, flight, r) ==
  LET ack      == WriteAndWaitForACK(r.x)
      response == <<ACK>> \o r.bytes
  IN  IF index = 0 THEN [ret |-> "false", flight |-> flight]
      ELSE IF ack = "throw" THEN [ret |-> "throw", flight |-> flight]
      ELSE IF ack = "false" THEN [ret |-> "false", flight |-> flight]
      ELSE IF r.read = "timeout" THEN [ret |-> "false", flight |-> flight]
      ELSE IF InfoCRC[r] # 0
        THEN [ret |-> "false", flight |-> flight]
      ELSE [ret |-> "true",
            flight |-> [flight_id |-> index,
                        date |-> julianToDate(LE32(response, 14)),
                        start_time |-> LE32(response, 18),
                        end_time |-> LE32(response, 22),
                        file_size |-> LE32(response, 90)]]

\* a default-constructed RecordedFlightInfo
NoFlight ==
  [flight_id |-> 0, date |-> [day |-> 0, month |-> 0, year |-> 0],
   start_time |-> 0, end_time |-> 0, file_size |-> 0]

\* --------------------------------------------------------- ReadFlightList

\* lines 17-29: pause the receiver, ask for the number of flights
ReadFlightList_Begin(r) ==
  /\ pc = "idle"
  /\ op' = "ReadFlightList"
  /\ rx_running' = FALSE
  /\ flight_list' = <<>>
  /\ i' = 0
  /\ attempt' = 0
  /\ port_out' = <<>>
  /\ NoDownload
  /\ LET got == GetNumberOfFlights(0, r)
     IN  IF got.ret = "throw"
           THEN /\ Thrown
                /\ flight_count' = 0
                /\ progress' = 0
                /\ UNCHANGED success
           ELSE /\ success' = (got.ret = "true")
                /\ flight_count' = got.flight_count
                /\ progress' = 1
                /\ pc' = IF got.ret = "true" /\ 0 < got.flight_count
                           THEN "rl_request" ELSE "rl_end"
                /\ ret' = "none"
                /\ exit_at' = "none"
  /\ UNCHANGED <<vario_settings, settings_mutex, info, parse_ret>>
  /\ rx_pc = "idle"
  /\ UNCHANGED rx_vars
  /\ UNCHANGED call

\* the break after an exhausted retry loop left out
ReadFlightList_Attempt_NoBreak(r) ==
  /\ pc = "rl_request"
  /\ MayAttempt(attempt)
  /\ LET got == GetFlightInfo((i + 1) % 256, NoFlight, r)
     IN  IF got.ret = "throw"
           THEN /\ Thrown
                /\ UNCHANGED <<success, attempt, i, flight_list, progress>>
         ELSE IF got.ret = "true" \/ ~MayAttempt(attempt + 1)
           THEN /\ success' = (got.ret = "true")
                /\ flight_list' = Append(flight_list, got.flight)
                /\ progress' = i + 2
                /\ i' = i + 1
                /\ attempt' = 0
                /\ pc' = IF i + 1 < flight_count THEN "rl_request" ELSE "rl_end"
                /\ UNCHANGED <<ret, exit_at>>
         ELSE /\ success' = FALSE
              /\ attempt' = attempt + 1
              /\ pc' = "rl_request"
              /\ UNCHANGED <<ret, exit_at, i, flight_list, progress>>
  /\ UNCHANGED <<op, rx_running, flight_count>>
  /\ UNCHANGED dl_vars
  /\ UNCHANGED set_vars
  /\ UNCHANGED rx_vars
  /\ UNCHANGED call

\* lines 34-44: one attempt of the retry loop for index i + 1
ReadFlightList_Attempt(r) ==
  /\ pc = "rl_request"
  /\ MayAttempt(attempt)
  /\ LET got == GetFlightInfo((i + 1) % 256, NoFlight, r)
     IN  IF got.ret = "throw"
           THEN /\ Thrown
                /\ UNCHANGED <<success, attempt, i, flight_list, progress>>
         ELSE IF got.ret = "true"
           THEN /\ success' = TRUE
                /\ flight_list' = Append(flight_list, got.flight)
                /\ progress' = i + 2
                /\ i' = i + 1
                /\ attempt' = 0
                /\ pc' = IF i + 1 < flight_count THEN "rl_request" ELSE "rl_end"
                /\ UNCHANGED <<ret, exit_at>>
         ELSE /\ success' = FALSE
              /\ attempt' = attempt + 1
              /\ pc' = IF MayAttempt(attempt + 1) THEN "rl_request" ELSE "rl_end"
              /\ UNCHANGED <<ret, exit_at, i, flight_list, progress>>
  /\ UNCHANGED <<op, rx_running, flight_count>>
  /\ UNCHANGED dl_vars
  /\ UNCHANGED set_vars
  /\ UNCHANGED rx_vars
  /\ UNCHANGED call

\* lines 48-51: resume the receiver, return
ReadFlightList_End ==
  /\ pc = "rl_end"
  /\ progress' = flight_count + 1
  /\ rx_running' = TRUE
  /\ ret' = IF success THEN "true" ELSE "false"
  /\ exit_at' = "end"
  /\ pc' = "idle"
  /\ UNCHANGED <<op, success, attempt, flight_count, i, flight_list>>
  /\ UNCHANGED dl_vars
  /\ UNCHANGED set_vars
  /\ UNCHANGED rx_vars
  /\ UNCHANGED call

\* ------------------------------------------------------ settings, sentences

\* printf's %.Nf: v, in hundredths, rounded to a multiple of unit
Round(v, unit) ==
  IF v >= 0 THEN ((2 * v + unit) \div (2 * unit)) * unit
  ELSE -(((2 * (-v) + unit) \div (2 * unit)) * unit)

\* "PFLX2,%.1f,%.2f,%.0f,,,,,"
FormatPFLX2(s) ==
  [type |-> "PFLX2", mc |-> Round(s.mc, 10), bal |-> Round(s.bal, 1),
   bugs |-> Round(s.bugs, 100)]

\* "PFLX0,LXWP0,1,LXWP1,60,LXWP2,11,LXWP3,17"
FormatPFLX0 ==
  [type |-> "PFLX0", LXWP0 |-> 1, LXWP1 |-> 60, LXWP2 |-> 11, LXWP3 |-> 17]

\* the sentence sent without looking at uptodate
SendNewSettings_Unchecked(s) ==
  [ret |-> "true", written |-> <<FormatPFLX2(s)>>]

\* result of SendNewSettings: ret and the sentences written to the port
SendNewSettings(s) ==
  IF s.uptodate = TRUE
    THEN [ret |-> "true", written |-> <<FormatPFLX2(s)>>]
    ELSE [ret |-> "false", written |-> <<>>]

\* a foreground operation that is none of the flight operations starts
Foreground(name) ==
  /\ pc = "idle"
  /\ op' = name
  /\ NoDownload
  /\ NoFlightList
  /\ success' = TRUE
  /\ attempt' = 0
  /\ progress' = 0
  /\ exit_at' = "none"
  /\ UNCHANGED <<rx_running, info, parse_ret>>
  /\ UNCHANGED rx_vars
  /\ UNCHANGED call

\* the whole mirror reset to its defaults
LinkTimeout_ClearsMirror ==
  /\ settings_mutex = "free"
  /\ vario_settings' = [mc |-> 0, bugs |-> 0, bal |-> 100, uptodate |-> FALSE]
  /\ UNCHANGED <<pc, op, ret, exit_at, rx_running, success, attempt, progress,
                 settings_mutex, port_out, info, parse_ret>>
  /\ UNCHANGED dl_vars
  /\ UNCHANGED rl_vars
  /\ UNCHANGED rx_vars
  /\ UNCHANGED call

\* line 13-14
LinkTimeout ==
  /\ settings_mutex = "free"
  /\ vario_settings' = [vario_settings EXCEPT !.uptodate = FALSE]
  /\ UNCHANGED <<pc, op, ret, exit_at, rx_running, success, attempt, progress,
                 settings_mutex, port_out, info, parse_ret>>
  /\ UNCHANGED dl_vars
  /\ UNCHANGED rl_vars
  /\ UNCHANGED rx_vars
  /\ UNCHANGED call

\* lines 35-39
EnableNMEA ==
  /\ Foreground("EnableNMEA")
  /\ port_out' = <<FormatPFLX0>>
  /\ ret' = "true"
  /\ pc' = "idle"
  /\ UNCHANGED <<vario_settings, settings_mutex>>

\* the mirror rebuilt around the new MacCready
PutMacCready_ResetsMirror(mc) ==
  /\ Foreground("PutMacCready")
  /\ settings_mutex = "free"
  /\ settings_mutex' = "foreground"
  /\ vario_settings' = [mc |-> mc, bugs |-> 0, bal |-> 100,
                        uptodate |-> vario_settings.uptodate]
  /\ port_out' = <<>>
  /\ ret' = "none"
  /\ pc' = "put_send"

\* lines 45-46: take the lock, store the new MacCready
PutMacCready(mc) ==
  /\ Foreground("PutMacCready")
  /\ settings_mutex = "free"
  /\ settings_mutex' = "foreground"
  /\ vario_settings' = [vario_settings EXCEPT !.mc = mc]
  /\ port_out' = <<>>
  /\ ret' = "none"
  /\ pc' = "put_send"

\* the bugs stored as the fraction itself, the complement forgotten
PutBugs_Uncomplemented(bugs) ==
  /\ Foreground("PutBugs")
  /\ settings_mutex = "free"
  /\ settings_mutex' = "foreground"
  /\ vario_settings' = [vario_settings EXCEPT !.bugs = bugs]
  /\ port_out' = <<>>
  /\ ret' = "none"
  /\ pc' = "put_send"

\* the mirror left alone while the settings are unknown
PutBugs_OnlyWhenKnown(bugs) ==
  /\ Foreground("PutBugs")
  /\ settings_mutex = "free"
  /\ settings_mutex' = "foreground"
  /\ vario_settings' = IF vario_settings.uptodate
                         THEN [vario_settings EXCEPT !.bugs = 10000 - bugs]
                         ELSE vario_settings
  /\ port_out' = <<>>
  /\ ret' = "none"
  /\ pc' = "put_send"

\* lines 53-54: take the lock, store the new bugs
PutBugs(bugs) ==
  /\ Foreground("PutBugs")
  /\ settings_mutex = "free"
  /\ settings_mutex' = "foreground"
  /\ vario_settings' = [vario_settings EXCEPT !.bugs = 10000 - bugs]
  /\ port_out' = <<>>
  /\ ret' = "none"
  /\ pc' = "put_send"

\* lines 47 / 55 with 80-95: SendNewSettings, called with the lock held
Put_Send ==
  /\ pc = "put_send"
  /\ LET sent == SendNewSettings(vario_settings)
     IN  /\ port_out' = port_out \o sent.written
         /\ ret' = sent.ret
  /\ pc' = "put_return"
  /\ UNCHANGED <<op, exit_at, rx_running, success, attempt, progress,
                 vario_settings, settings_mutex, info, parse_ret>>
  /\ UNCHANGED dl_vars
  /\ UNCHANGED rl_vars
  /\ UNCHANGED rx_vars
  /\ UNCHANGED call

\* lines 48 / 56: the lock_guard releases the lock, the call returns
Put_Return ==
  /\ pc = "put_return"
  /\ settings_mutex' = "free"
  /\ exit_at' = "end"
  /\ pc' = "idle"
  /\ UNCHANGED <<op, ret, rx_running, success, attempt, progress,
                 vario_settings, port_out, info, parse_ret>>
  /\ UNCHANGED dl_vars
  /\ UNCHANGED rl_vars
  /\ UNCHANGED rx_vars
  /\ UNCHANGED call

\* ---------------------------------------------------------- sentence parser

\* a field of a sentence: ok when it holds a number, v the number
Num(v) == [ok |-> TRUE, v |-> v]

Blank == [ok |-> FALSE, v |-> 0]

\* NMEAInputLine: the field at position at, empty past the end of the line
FieldAt(line, at) == IF at <= Len(line.fields) THEN line.fields[at] ELSE Blank

\* the six vario samples: ReadChecked is called only while vario_ok holds, so
\* the cursor stops after the first sample that does not parse
RECURSIVE ReadVario(_, _, _, _, _, _)
ReadVario(line, at, taps, vario_ok, value, vario) ==
  IF taps = <<>> THEN [at |-> at, vario_ok |-> vario_ok, vario |-> vario]
  ELSE LET f      == FieldAt(line, at)
           ok     == vario_ok /\ f.ok
           value2 == IF vario_ok /\ f.ok THEN f.v ELSE value
           at2    == IF vario_ok THEN at + 1 ELSE at
       IN  ReadVario(line, at2, Tail(taps), ok, value2,
                     vario + value2 * Head(taps))

\* fir_b, times 10000
FirTaps == <<-421, 1628, 3793, 3793, 1628, -421>>

\* the airspeed range tested after the altitude was provided
LXWP0_LateRangeCheck(line, nmea, settings) ==
  LET tas      == FieldAt(line, 2)
      alt      == FieldAt(line, 3)
      with_alt == IF alt.ok
                    THEN [nmea EXCEPT !.baro_altitude_true = <<alt.v>>]
                    ELSE nmea
  IN  [ret |-> IF tas.ok /\ (tas.v < -5000 \/ tas.v > 40000)
                 THEN "false" ELSE "true",
       info |-> with_alt, settings |-> settings]

\* the filtered vario provided although a sample did not parse
LXWP0_VarioAlways(line, nmea, settings) ==
  LET tas      == FieldAt(line, 2)
      alt      == FieldAt(line, 3)
      v        == ReadVario(line, 4, FirTaps, TRUE, 0, 0)
      wind_dir == FieldAt(line, v.at + 2)
      wind_spd == FieldAt(line, v.at + 3)
      with_alt == IF alt.ok
                    THEN [nmea EXCEPT !.baro_altitude_true = <<alt.v>>]
                    ELSE nmea
      with_tas == IF tas.ok
                    THEN [with_alt EXCEPT !.true_airspeed = <<5 * tas.v>>]
                    ELSE with_alt
      with_var == [with_tas EXCEPT !.total_energy_vario = <<v.vario>>]
      with_wnd == IF wind_dir.ok /\ wind_spd.ok
                    THEN [with_var EXCEPT !.external_wind =
                            <<[bearing |-> wind_dir.v, norm |-> 5 * wind_spd.v]>>]
                    ELSE with_var
  IN  IF tas.ok /\ (tas.v < -5000 \/ tas.v > 40000)
        THEN [ret |-> "false", info |-> nmea, settings |-> settings]
        ELSE [ret |-> "true", info |-> with_wnd, settings |-> settings]

\* result of a decoder: ret, info and vario_settings afterwards
LXWP0(line, nmea, settings) ==
  LET tas      == FieldAt(line, 2)
      alt      == FieldAt(line, 3)
      v        == ReadVario(line, 4, FirTaps, TRUE, 0, 0)
      wind_dir == FieldAt(line, v.at + 2)
      wind_spd == FieldAt(line, v.at + 3)
      with_alt == IF alt.ok
                    THEN [nmea EXCEPT !.baro_altitude_true = <<alt.v>>]
                    ELSE nmea
      with_tas == IF tas.ok
                    THEN [with_alt EXCEPT !.true_airspeed = <<5 * tas.v>>]
                    ELSE with_alt
      with_var == IF v.vario_ok
                    THEN [with_tas EXCEPT !.total_energy_vario = <<v.vario>>]
                    ELSE with_tas
      with_wnd == IF wind_dir.ok /\ wind_spd.ok
                    THEN [with_var EXCEPT !.external_wind =
                            <<[bearing |-> wind_dir.v, norm |-> 5 * wind_spd.v]>>]
                    ELSE with_var
  IN  IF tas.ok /\ (tas.v < -5000 \/ tas.v > 40000)
        THEN [ret |-> "false", info |-> nmea, settings |-> settings]
        ELSE [ret |-> "true", info |-> with_wnd, settings |-> settings]

LXWP1(line, nmea, settings) ==
  [ret |-> "true",
   info |-> [nmea EXCEPT !.device =
               <<[product |-> FieldAt(line, 1), serial |-> FieldAt(line, 2),
                  software_version |-> FieldAt(line, 3),
                  hardware_version |-> FieldAt(line, 4)]>>],
   settings |-> settings]

\* each field stored as soon as it is read
LXWP2_StoresEarly(line, nmea, settings) ==
  LET mc   == FieldAt(line, 1)
      bal  == FieldAt(line, 2)
      bugs == FieldAt(line, 3)
      s1   == IF mc.ok THEN [settings EXCEPT !.mc = mc.v] ELSE settings
      s2   == IF mc.ok /\ bal.ok THEN [s1 EXCEPT !.bal = bal.v] ELSE s1
  IN  IF ~mc.ok \/ ~bal.ok \/ ~bugs.ok
        THEN [ret |-> "false", info |-> nmea, settings |-> s2]
        ELSE [ret |-> "true",
              info |-> [nmea EXCEPT !.mac_cready = <<mc.v>>,
                                    !.bugs = <<10000 - bugs.v>>],
              settings |-> [mc |-> mc.v, bugs |-> bugs.v, bal |-> bal.v,
                            uptodate |-> TRUE]]

LXWP2(line, nmea, settings) ==
  LET mc   == FieldAt(line, 1)
      bal  == FieldAt(line, 2)
      bugs == FieldAt(line, 3)
  IN  IF ~mc.ok \/ ~bal.ok \/ ~bugs.ok
        THEN [ret |-> "false", info |-> nmea, settings |-> settings]
        ELSE [ret |-> "true",
              info |-> [nmea EXCEPT !.mac_cready = <<mc.v>>,
                                    !.bugs = <<10000 - bugs.v>>],
              settings |-> [mc |-> mc.v, bugs |-> bugs.v, bal |-> bal.v,
                            uptodate |-> TRUE]]

\* the altitude offset in feet, negated, in 1e-6 m; the QNH is the static
\* pressure at that pressure altitude
LXWP3(line, nmea, settings) ==
  LET value == FieldAt(line, 1)
  IN  [ret |-> "true",
       info |-> IF value.ok
                  THEN [nmea EXCEPT !.qnh =
                          <<[pressure_altitude |-> -value.v * 3048]>>]
                  ELSE nmea,
       settings |-> settings]

\* the decoder takes the settings lock
TakesLock(line) ==
  /\ line.checksum_ok
  /\ line.type = "$LXWP2"
  /\ FieldAt(line, 1).ok /\ FieldAt(line, 2).ok /\ FieldAt(line, 3).ok

\* the sentence decoded without looking at its checksum
ParseLine_NoChecksum(line, nmea, settings) ==
  IF line.type = "$LXWP0" THEN LXWP0(line, nmea, settings)
  ELSE IF line.type = "$LXWP1" THEN LXWP1(line, nmea, settings)
  ELSE IF line.type = "$LXWP2" THEN LXWP2(line, nmea, settings)
  ELSE IF line.type = "$LXWP3" THEN LXWP3(line, nmea, settings)
  ELSE [ret |-> "false", info |-> nmea, settings |-> settings]

ParseLine(line, nmea, settings) ==
  IF ~line.checksum_ok
    THEN [ret |-> "false", info |-> nmea, settings |-> settings]
  ELSE IF line.type = "$LXWP0" THEN LXWP0(line, nmea, settings)
  ELSE IF line.type = "$LXWP1" THEN LXWP1(line, nmea, settings)
  ELSE IF line.type = "$LXWP2" THEN LXWP2(line, nmea, settings)
  ELSE IF line.type = "$LXWP3" THEN LXWP3(line, nmea, settings)
  ELSE [ret |-> "false", info |-> nmea, settings |-> settings]

\* the sentences the device sends
Line(ok, type, fields) == [checksum_ok |-> ok, type |-> type, fields |-> fields]

\* "$LXWP2,1.0,1.2,10,,,,50": MacCready 1.0, load factor 1.2, bugs 10 %
SettingsLine(ok) ==
  Line(ok, "$LXWP2", <<Num(100), Num(120), Num(1000), Blank, Blank, Blank,
                       Num(50)>>)

Lines ==
  {SettingsLine(ok) : ok \in BOOLEAN}
  \cup
  {Line(TRUE, "$LXWP2", <<Num(100), Blank, Num(1000)>>),
   Line(TRUE, "$LXWP5", <<Num(100), Num(120), Num(1000)>>)}

\* the sentences received between flight operations
FlightLines == {SettingsLine(TRUE)}

\* the receive thread hands a line to the driver
ParseNMEA(line) ==
  /\ rx_running
  /\ rx_pc = "idle"
  /\ TakesLock(line) => settings_mutex = "free"
  /\ LET got == ParseLine(line, info, vario_settings)
     IN  /\ parse_ret' = got.ret
         /\ info' = got.info
         /\ vario_settings' = got.settings
  /\ UNCHANGED <<pc, op, ret, exit_at, rx_running, success, attempt, progress,
                 settings_mutex, port_out>>
  /\ UNCHANGED dl_vars
  /\ UNCHANGED rl_vars
  /\ rx_line' = line
  /\ UNCHANGED <<rx_pc, call>>

\* ------------------------------------- $LXWP2 as the receive thread runs it

\* "$LXWP2,2.0,1.5,30,,,,50": MacCready 2.0, load factor 1.5, bugs 30 %
SettingsLine2 ==
  Line(TRUE, "$LXWP2", <<Num(200), Num(150), Num(3000), Blank, Blank, Blank,
                         Num(50)>>)

\* the sentences with all three settings fields
GoodSettingsLines == {SettingsLine(TRUE), SettingsLine2}

\* the sentences received while the pilot changes settings
MirrorLines ==
  GoodSettingsLines
  \cup
  {SettingsLine(FALSE),
   Line(TRUE, "$LXWP2", <<Num(100), Blank, Num(1000)>>),
   Line(TRUE, "$LXWP5", <<Num(100), Num(120), Num(1000)>>)}

\* what the other threads' variables do during a step of the receive thread
RxOnly ==
  /\ UNCHANGED <<pc, op, ret, exit_at, rx_running, success, attempt, progress,
                 port_out, call>>
  /\ UNCHANGED dl_vars
  /\ UNCHANGED rl_vars

\* the lock taken without waiting for it
LXWP2_Lock_NoGuard(line) ==
  /\ rx_running
  /\ rx_pc = "idle"
  /\ TakesLock(line)
  /\ info' = LXWP2(line, info, vario_settings).info
  /\ rx_line' = line
  /\ rx_pc' = "mc"
  /\ UNCHANGED <<settings_mutex, vario_settings, parse_ret>>
  /\ RxOnly

\* lines 119-139: the three fields parsed; take the lock, provide MacCready
\* and bugs to the NMEAInfo
LXWP2_Lock(line) ==
  /\ rx_running
  /\ rx_pc = "idle"
  /\ TakesLock(line)
  /\ settings_mutex = "free"
  /\ settings_mutex' = "rx"
  /\ info' = LXWP2(line, info, vario_settings).info
  /\ rx_line' = line
  /\ rx_pc' = "mc"
  /\ UNCHANGED <<vario_settings, parse_ret>>
  /\ RxOnly

\* the assignment of mc left out: the mirror keeps the MacCready it had
LXWP2_Store_KeepsMc ==
  /\ rx_pc \in {"mc", "bal", "bugs"}
  /\ vario_settings' =
       IF rx_pc = "mc"
         THEN vario_settings
       ELSE IF rx_pc = "bal"
         THEN [vario_settings EXCEPT !.bal = FieldAt(rx_line, 2).v]
       ELSE [vario_settings EXCEPT !.bugs = FieldAt(rx_line, 3).v]
  /\ rx_pc' = IF rx_pc = "mc" THEN "bal"
              ELSE IF rx_pc = "bal" THEN "bugs" ELSE "uptodate"
  /\ UNCHANGED <<settings_mutex, info, parse_ret, rx_line>>
  /\ RxOnly

\* lines 141-143: one assignment to the mirror
LXWP2_Store ==
  /\ rx_pc \in {"mc", "bal", "bugs"}
  /\ vario_settings' =
       IF rx_pc = "mc"
         THEN [vario_settings EXCEPT !.mc = FieldAt(rx_line, 1).v]
       ELSE IF rx_pc = "bal"
         THEN [vario_settings EXCEPT !.bal = FieldAt(rx_line, 2).v]
       ELSE [vario_settings EXCEPT !.bugs = FieldAt(rx_line, 3).v]
  /\ rx_pc' = IF rx_pc = "mc" THEN "bal"
              ELSE IF rx_pc = "bal" THEN "bugs" ELSE "uptodate"
  /\ UNCHANGED <<settings_mutex, info, parse_ret, rx_line>>
  /\ RxOnly

\* lines 144-147: uptodate, return true, the lock_guard releases the lock
LXWP2_Return ==
  /\ rx_pc = "uptodate"
  /\ vario_settings' = [vario_settings EXCEPT !.uptodate = TRUE]
  /\ settings_mutex' = IF settings_mutex = "rx" THEN "free" ELSE settings_mutex
  /\ parse_ret' = "true"
  /\ rx_pc' = "idle"
  /\ UNCHANGED <<info, rx_line>>
  /\ RxOnly

\* ------------------------------------------------ the sentences of a flight

\* "$LXWP0,Y,<tas>,<alt>,0.02,0.02,0.02,0.02,0.02,0.02,,,90.0,10.7"
TelemetryLine(ok, tas, alt) ==
  Line(ok, "$LXWP0",
       <<Blank, tas, alt, Num(2), Num(2), Num(2), Num(2), Num(2), Num(2),
         Blank, Blank, Num(9000), Num(1070)>>)

\* airspeeds inside, on the ends of, and outside -50..400 km/h, and none
TelemetryLines ==
  {TelemetryLine(TRUE, Num(11940), Num(171760)),
   TelemetryLine(TRUE, Num(-5000), Num(50000)),
   TelemetryLine(TRUE, Num(40000), Num(50000)),
   TelemetryLine(TRUE, Num(-5001), Num(171760)),
   TelemetryLine(TRUE, Num(40001), Num(171760)),
   TelemetryLine(TRUE, Num(50000), Num(50000)),
   TelemetryLine(TRUE, Blank, Num(171760)),
   TelemetryLine(FALSE, Num(11940), Num(50000))}

\* "$LXWP1,EOS,12345,1.7,1.1"
DeviceLine(ok) == Line(ok, "$LXWP1", <<Num(1), Num(12345), Num(170), Num(110)>>)

\* "$LXWP3,47.76": the altitude offset in feet
OffsetLine(ok) == Line(ok, "$LXWP3", <<Num(4776)>>)

\* $LXWP2 with one of mc, load factor, bugs missing
PartialSettingsLines ==
  {Line(TRUE, "$LXWP2", <<Blank, Num(130), Num(4000)>>),
   Line(TRUE, "$LXWP2", <<Num(300), Blank, Num(4000)>>),
   Line(TRUE, "$LXWP2", <<Num(300), Num(130), Blank>>),
   Line(TRUE, "$LXWP2", <<Num(300), Num(130)>>)}

\* sentences of other identifiers
UnknownLines ==
  {Line(TRUE, "$LXWP5", <<Num(300), Num(130), Num(4000)>>),
   Line(TRUE, "$GPRMC", <<Num(300), Num(130), Num(4000)>>)}

ParserLines ==
  TelemetryLines \cup PartialSettingsLines \cup UnknownLines
  \cup GoodSettingsLines
  \cup {DeviceLine(ok) : ok \in BOOLEAN}
  \cup {OffsetLine(ok) : ok \in BOOLEAN}
  \cup {SettingsLine(FALSE)}

\* ------------------------------------------------- helpers called directly

\* what a step that only calls a helper leaves alone
CallOnly ==
  /\ UNCHANGED <<pc, op, ret, exit_at, rx_running, success, attempt, progress>>
  /\ UNCHANGED dl_vars
  /\ UNCHANGED rl_vars
  /\ UNCHANGED set_vars
  /\ UNCHANGED rx_vars

\* every way one exchange can go: a fault of one of the three port calls, no
\* byte within the timeout (-1), or any byte
Exchanges ==
  {Exchange(fault, -1) : fault \in {"flush", "write", "wait"}}
  \cup
  {Exchange("none", b) : b \in -1..255}

\* one call of WriteAndWaitForACK
Call_WriteAndWaitForACK(x) ==
  /\ call' = [fn |-> "WriteAndWaitForACK", arg |-> x,
              result |-> [ret |-> WriteAndWaitForACK(x), port |-> PortCalls(x)]]
  /\ CallOnly

\* the bytes of the longer messages: all bits clear, all set, the handshake
\* byte, the polynomial
CrcBytes == {0, 6, 105, 255}

\* every single byte, and the messages over CrcBytes up to MaxCrcLen bytes
CrcMessages ==
  {<<b>> : b \in 0..255}
  \cup UNION {SeqsOfLen(CrcBytes, n) : n \in 0..MaxCrcLen}

\* CalculateCRC with the seed 0xFF, tabulated over the messages
SeededCRC == [m \in CrcMessages |-> CalculateCRC(m, CRC_SEED)]

\* one call of CalculateCRC with the seed 0xFF
Call_CalculateCRC(m) ==
  /\ call' = [fn |-> "CalculateCRC", arg |-> m, result |-> SeededCRC[m]]
  /\ CallOnly

\* ---------------------------------------------------------- specification

\* no line was handed to the driver yet
NoLine == Line(FALSE, "", <<>>)

\* no helper was called yet
NoCall == [fn |-> "none", arg |-> <<>>, result |-> <<>>]

NoInfo ==
  [baro_altitude_true |-> <<>>, true_airspeed |-> <<>>,
   total_energy_vario |-> <<>>, external_wind |-> <<>>, mac_cready |-> <<>>,
   bugs |-> <<>>, qnh |-> <<>>, device |-> <<>>]

Init ==
  /\ pc = "idle"
  /\ op = "none"
  /\ ret = "none"
  /\ exit_at = "none"
  /\ rx_running = TRUE
  /\ success = TRUE
  /\ attempt = 0
  /\ file_size = 0
  /\ bytes_remaining = 0
  /\ block_id = 0
  /\ block = <<>>
  /\ glb_exit = "none"
  /\ bos = <<>>
  /\ fos = "none"
  /\ progress = 0
  /\ flight_count = 0
  /\ i = 0
  /\ flight_list = <<>>
  /\ vario_settings = [mc |-> 0, bugs |-> 0, bal |-> 100, uptodate |-> FALSE]
  /\ settings_mutex = "free"
  /\ port_out = <<>>
  /\ info = NoInfo
  /\ parse_ret = "none"
  /\ rx_pc = "idle"
  /\ rx_line = NoLine
  /\ call = NoCall

\* the values the pilot sets: MacCready, and the bugs fraction
PilotMacCready == {240}

PilotBugs == {8000}

\* the flight operations, with the receive thread running when not paused
NextFlights ==
  \/ \E size \in 0..MaxFileSize : DownloadFlight_Begin(size)
  \/ \E r \in BlockResponses :
       /\ LE16(r.header[3], r.header[4]) \in {block_id, NextBlockId(block_id)}
       /\ DownloadFlight_Attempt(r)
  \/ DownloadFlight_Write
  \/ DownloadFlight_End
  \/ \E r \in CountResponses : ReadFlightList_Begin(r)
  \/ \E r \in InfoResponses : ReadFlightList_Attempt(r)
  \/ ReadFlightList_End
  \/ \E line \in FlightLines : ParseNMEA(line)

\* the settings operations, the link timeout and the receive thread
NextSettings ==
  \/ LinkTimeout
  \/ EnableNMEA
  \/ \E mc \in PilotMacCready : PutMacCready(mc)
  \/ \E bugs \in PilotBugs : PutBugs(bugs)
  \/ Put_Send
  \/ Put_Return
  \/ \E line \in Lines : ParseNMEA(line)

Next == NextFlights \/ NextSettings

Spec == Init /\ [][Next]_vars

SpecFlights == Init /\ [][NextFlights]_vars

SpecSettings == Init /\ [][NextSettings]_vars

\* the settings operations against the receive thread taken statement by
\* statement through its $LXWP2 update
NextMirror ==
  \/ LinkTimeout
  \/ EnableNMEA
  \/ \E mc \in PilotMacCready : PutMacCready(mc)
  \/ \E bugs \in PilotBugs : PutBugs(bugs)
  \/ Put_Send
  \/ Put_Return
  \/ \E line \in MirrorLines : LXWP2_Lock(line)
  \/ LXWP2_Store
  \/ LXWP2_Return
  \/ \E line \in MirrorLines : ~TakesLock(line) /\ ParseNMEA(line)

SpecMirror == Init /\ [][NextMirror]_vars

\* CalculateCRC alone
NextCRC == \E m \in CrcMessages : Call_CalculateCRC(m)

SpecCRC == Init /\ [][NextCRC]_vars

\* the receive thread alone
NextParser == \E line \in ParserLines : ParseNMEA(line)

SpecParser == Init /\ [][NextParser]_vars

NextExchange == \E x \in Exchanges : Call_WriteAndWaitForACK(x)

SpecExchange == Init /\ [][NextExchange]_vars

\* ------------------------------------------------------------------ claims

\* the foreground thread took a step
FgStep == pc' # pc \/ attempt' # attempt

Downloading == op = "DownloadFlight"

Listing == op = "ReadFlightList"

\* C1: whenever no operation is running, the receive thread is running:
\* ReadFlightList and DownloadFlight resume it on every exit path
C1_ReceiverResumed == pc = "idle" => rx_running

\* C2: the step of DownloadFlight that meets a block larger than the bytes
\* still outstanding leaves the output sink as it was
C2_OversizeNotWritten ==
  [][(pc = "dl_write" /\ Len(block) > bytes_remaining) => bos' = bos]_vars

\* C3: DownloadFlight commits the file only at the end of a run in which
\* every block was received, never on a failing run, and returns true exactly
\* when it committed
C3_CommitOnlyOnSuccess ==
  Downloading =>
    /\ fos = "committed" =>
         /\ pc = "idle" /\ ret = "true" /\ exit_at = "end"
         /\ success /\ glb_exit \in {"none", "ok"}
    /\ (pc = "idle" /\ ret = "true") => fos = "committed"
    /\ (pc = "idle" /\ ret \in {"false", "throw"}) => fos = "open"

C3_Witness ==
  Downloading /\ fos = "committed" /\ file_size >= 2 /\ block_id >= 2

\* C4: the remaining-byte counter stays within 0..file_size, and when
\* DownloadFlight returns true it is 0 and the sink holds file_size bytes
C4_RemainingZero ==
  Downloading =>
    /\ bytes_remaining \in 0..file_size
    /\ (pc = "idle" /\ ret = "true") =>
         (bytes_remaining = 0 /\ Len(bos) = file_size)

C4_Witness ==
  /\ Downloading /\ pc = "idle" /\ ret = "true"
  /\ file_size >= 2 /\ Len(bos) = file_size /\ block_id >= 2

\* C5: after a block is accepted the next request is for the previous id + 1
C5_ContiguousIds ==
  [][(Downloading /\ pc = "dl_write" /\ pc' = "dl_request")
       => block_id' = block_id + 1]_vars

\* C6: a block is requested at most 5 times; a success goes on to the block
\* and, after it, to a next block with 5 fresh attempts; the 5th failure for
\* one block ends the requests and DownloadFlight returns false
C6_Inv ==
  Downloading =>
    /\ attempt \in 0..MaxAttempts
    /\ pc = "dl_request" => attempt < MaxAttempts
    /\ attempt = MaxAttempts => (pc \in {"dl_end", "idle"} /\ ~success)
    /\ (pc = "idle" /\ attempt = MaxAttempts) => (ret = "false" /\ exit_at = "end")

C6_Step ==
  /\ (pc = "dl_request" /\ FgStep /\ pc' # "idle") =>
       \/ pc' = "dl_write" /\ success' /\ attempt' = attempt
       \/ attempt' = attempt + 1 /\ ~success' /\ block_id' = block_id
            /\ pc' = IF attempt' = MaxAttempts THEN "dl_end" ELSE "dl_request"
  /\ (pc = "dl_write" /\ pc' = "dl_request") => attempt' = 0
  /\ pc = "dl_end" => pc' \in {"dl_end", "idle"}

C6_RetryBound == []C6_Inv /\ [][C6_Step]_vars

C6_Witness ==
  /\ Downloading /\ pc = "idle" /\ ret = "false"
  /\ attempt = MaxAttempts /\ block_id = 1 /\ Len(bos) >= 1

MismatchingOf ==
  [b \in 0..(BlockIdModulus - 1) |->
     {r \in BlockResponses :
        /\ LE16(r.header[3], r.header[4]) = NextBlockId(b)
        /\ WriteAndWaitForACK(r.x) = "true"
        /\ r.read # "header"}]

ListsFirst(n) ==
  /\ Len(flight_list) = n
  /\ \A k \in 1..n : flight_list[k].flight_id = k

\* C8: when the request for index i + 1 failed 5 times, ReadFlightList sends
\* no further request and returns false, and the list holds the entries of the
\* indices 1..i
C8_Exhausted ==
  Listing =>
    /\ ListsFirst(i)
    /\ pc = "rl_request" => (attempt < MaxAttempts /\ i < flight_count)
    /\ attempt = MaxAttempts =>
         /\ pc \in {"rl_end", "idle"} /\ ~success /\ i < flight_count
         /\ pc = "idle" => (ret = "false" /\ exit_at = "end")

C8_Witness ==
  /\ Listing /\ pc = "idle" /\ ret = "false" /\ attempt = MaxAttempts
  /\ i = 1 /\ flight_count = 2 /\ Len(flight_list) = 1

\* C9: a failed count exchange ends ReadFlightList with false, an empty list
\* and no flight-info request; it returns true exactly when the count exchange
\* and every index 1..count succeeded, and the list then holds the entries
\* 1..count
C9_Inv ==
  (Listing /\ pc \in {"rl_end", "idle"} /\ ret # "throw") =>
    /\ success => (i = flight_count /\ ListsFirst(flight_count) /\ attempt = 0)
    /\ ~success =>
         \/ attempt = 0 /\ i = 0 /\ flight_count = 0 /\ flight_list = <<>>
         \/ attempt = MaxAttempts /\ i < flight_count
    /\ pc = "idle" => (ret = "true" <=> success)

C9_Step ==
  /\ (pc = "idle" /\ pc' \in {"rl_request", "rl_end"}) =>
       \A r \in CountResponses :
         ReadFlightList_Begin(r) =>
           /\ success' = (GetNumberOfFlights(0, r).ret = "true")
           /\ ~success' => (pc' = "rl_end" /\ flight_list' = <<>>)
  /\ (Listing /\ pc = "rl_end") => pc' \in {"rl_end", "idle"}

C9_ListComplete == []C9_Inv /\ [][C9_Step]_vars

C9_Witness ==
  /\ Listing /\ pc = "idle" /\ ret = "true"
  /\ flight_count = 2 /\ Len(flight_list) = 2

\* the distance of a and b
Dist(a, b) == IF a >= b THEN a - b ELSE b - a

\* the sentence carries mc, bal and bugs of the mirror, to the printed digits
Carries(sentence, s) ==
  /\ sentence.type = "PFLX2"
  /\ Dist(sentence.mc, s.mc) <= 5 /\ sentence.mc % 10 = 0
  /\ sentence.bal = s.bal
  /\ Dist(sentence.bugs, s.bugs) <= 50 /\ sentence.bugs % 100 = 0

\* C10: PutMacCready and PutBugs write one PFLX2 sentence carrying the mirror
\* and return true when uptodate holds, write nothing and return false when
\* not; no PFLX2 sentence is written while uptodate is false
C10_Inv ==
  /\ pc = "put_return" =>
       IF vario_settings.uptodate
         THEN /\ ret = "true"
              /\ Len(port_out) = 1 /\ Carries(port_out[1], vario_settings)
         ELSE ret = "false" /\ port_out = <<>>
  /\ (pc = "idle" /\ op \in {"PutMacCready", "PutBugs"}) =>
       IF ret = "true"
         THEN Len(port_out) = 1 /\ port_out[1].type = "PFLX2"
         ELSE ret = "false" /\ port_out = <<>>

C10_Step ==
  /\ pc = "put_send" /\ pc' = "put_return" =>
       (ret' = "true" <=> vario_settings.uptodate)
  /\ (port_out' # port_out /\ port_out' # <<>>
        /\ port_out'[Len(port_out')].type = "PFLX2") => vario_settings.uptodate

C10_OnlyWhenUptodate == []C10_Inv /\ [][C10_Step]_vars

C10_Witness ==
  /\ op = "PutBugs" /\ pc = "put_return" /\ ret = "true"
  /\ port_out = <<[type |-> "PFLX2", mc |-> 240, bal |-> 120, bugs |-> 2000]>>

\* the last sentence on the port is a settings sentence, written by this step
WritesPFLX2 ==
  /\ Len(port_out') > Len(port_out)
  /\ port_out'[Len(port_out')].type = "PFLX2"

\* C11: uptodate is false until a $LXWP2 was parsed; LinkTimeout clears it and
\* nothing else of the mirror; only the end of a successfully parsed $LXWP2
\* sets it; no settings sentence is written while it is false
C11_Inv == info.mac_cready = <<>> => ~vario_settings.uptodate

C11_Step ==
  /\ LinkTimeout =>
       vario_settings' = [vario_settings EXCEPT !.uptodate = FALSE]
  /\ (~vario_settings.uptodate /\ vario_settings'.uptodate) =>
       /\ rx_pc = "uptodate" /\ rx_pc' = "idle" /\ parse_ret' = "true"
       /\ rx_line \in GoodSettingsLines
  /\ WritesPFLX2 => vario_settings.uptodate

C11_UptodateOnlyFromDevice == []C11_Inv /\ [][C11_Step]_vars

C11_Witness ==
  /\ info.mac_cready # <<>> /\ ~vario_settings.uptodate
  /\ op = "PutMacCready" /\ pc = "idle" /\ ret = "false" /\ port_out = <<>>

\* C12: no sentence is written to the port by a thread that holds the
\* settings lock
C12_NoIOUnderLock ==
  [][Len(port_out') > Len(port_out) => settings_mutex # "foreground"]_vars

\* the sentence the running PutMacCready / PutBugs wrote
Sent == port_out[1]

\* a PutMacCready / PutBugs has written its sentence
HasSent ==
  /\ op \in {"PutMacCready", "PutBugs"}
  /\ pc = "put_return" /\ ret = "true" /\ Len(port_out) = 1

\* C13: PutMacCready changes only mc and PutBugs only bugs of the mirror; the
\* ballast changes only by the ballast assignment of a parsed $LXWP2, and the
\* ballast of a written PFLX2 sentence is the ballast of the mirror
C13_Inv == HasSent => Sent.bal = vario_settings.bal

C13_Step ==
  /\ (pc' # pc /\ op' \in {"PutMacCready", "PutBugs"}) =>
       /\ vario_settings'.bal = vario_settings.bal
       /\ vario_settings'.uptodate = vario_settings.uptodate
       /\ (pc # "idle" \/ op' = "PutBugs") =>
            vario_settings'.mc = vario_settings.mc
       /\ (pc # "idle" \/ op' = "PutMacCready") =>
            vario_settings'.bugs = vario_settings.bugs
  /\ vario_settings'.bal # vario_settings.bal =>
       /\ rx_pc = "bal" /\ rx_line \in GoodSettingsLines
       /\ vario_settings'.bal = FieldAt(rx_line, 2).v

C13_OnlyTargetedField == []C13_Inv /\ [][C13_Step]_vars

C13_Witness ==
  /\ HasSent /\ op = "PutMacCready"
  /\ Sent = [type |-> "PFLX2", mc |-> 240, bal |-> 150, bugs |-> 3000]
  /\ rx_line = SettingsLine2

\* the values a field of the mirror can hold after the sentence `line`
McAfter(line) == {Round(FieldAt(line, 1).v, 10)} \cup PilotMacCready

BugsAfter(line) ==
  {Round(FieldAt(line, 3).v, 100)}
  \cup {Round(10000 - b, 100) : b \in PilotBugs}

\* C14: a written PFLX2 sentence carries the fields of the mirror as one
\* parsed $LXWP2 left it, but for the fields the pilot set since: never the
\* fields of two sentences; no sentence is formatted during a $LXWP2 update
C14_Inv ==
  /\ HasSent =>
       \E line \in GoodSettingsLines :
         /\ Sent.bal = FieldAt(line, 2).v
         /\ Sent.mc \in McAfter(line)
         /\ Sent.bugs \in BugsAfter(line)
  /\ pc \in {"put_send", "put_return"} => rx_pc = "idle"

C14_Step ==
  (rx_pc = "uptodate" /\ rx_pc' = "idle") =>
    /\ vario_settings'.mc = FieldAt(rx_line, 1).v
    /\ vario_settings'.bal = FieldAt(rx_line, 2).v
    /\ vario_settings'.bugs = FieldAt(rx_line, 3).v
    /\ vario_settings'.uptodate

C14_MirrorNeverTorn == []C14_Inv /\ [][C14_Step]_vars

C14_Witness ==
  /\ HasSent /\ op = "PutBugs"
  /\ Sent = [type |-> "PFLX2", mc |-> 100, bal |-> 120, bugs |-> 2000]
  /\ info.mac_cready = <<100>> /\ rx_line = SettingsLine(TRUE)
  /\ vario_settings.uptodate

\* a call of WriteAndWaitForACK has returned or thrown
Exchanged == call.fn = "WriteAndWaitForACK"

\* C15: an exchange without a fault flushes, writes the frame once and waits
\* for the handshake byte; it returns true exactly when the byte is 0x06 and
\* false for 0x15, for any other byte and for a timeout
C15_TrueOnlyOnACK ==
  (Exchanged /\ call.arg.fault = "none") =>
    /\ call.result.port = <<"FullFlush", "FullWrite", "WaitForByte">>
    /\ call.result.ret = IF call.arg.hs_byte = 6 THEN "true" ELSE "false"

C15_Witness ==
  /\ Exchanged /\ call.arg = Exchange("none", 21)
  /\ call.result.ret = "false"

\* C16: no fault of the three port calls leaves WriteAndWaitForACK: it
\* returns false
C16_NoFaultEscapes ==
  (Exchanged /\ call.arg.hs_byte # 6) => call.result.ret = "false"

\* the identifiers ParseNMEA decodes
Decoded == {"$LXWP0", "$LXWP1", "$LXWP2", "$LXWP3"}

\* the step leaves the instrument state and the settings mirror as they were
Untouched ==
  /\ parse_ret' = "false"
  /\ info' = info
  /\ vario_settings' = vario_settings

\* C17: ParseNMEA of a line with an invalid checksum or with an identifier it
\* does not decode returns false and leaves the instrument state and the
\* mirror as they were
C17_RejectedUnchanged ==
  [][\A line \in ParserLines :
       (ParseNMEA(line) /\ (~line.checksum_ok \/ line.type \notin Decoded))
         => Untouched]_vars

C17_Witness ==
  /\ rx_line = SettingsLine(FALSE) /\ parse_ret = "false"
  /\ info.mac_cready = <<200>> /\ info.baro_altitude_true # <<>>
  /\ vario_settings = [mc |-> 200, bugs |-> 3000, bal |-> 150,
                       uptodate |-> TRUE]

\* C18: a $LXWP0 sentence whose airspeed parses to less than -50 or more than
\* 400 km/h is rejected: ParseNMEA returns false and nothing of the sentence
\* reaches the instrument state
C18_AirspeedRange ==
  [][\A line \in ParserLines :
       (/\ ParseNMEA(line)
        /\ line.checksum_ok /\ line.type = "$LXWP0"
        /\ FieldAt(line, 2).ok
        /\ (FieldAt(line, 2).v < -5000 \/ FieldAt(line, 2).v > 40000))
         => Untouched]_vars

C18_Witness ==
  /\ rx_line = TelemetryLine(TRUE, Num(40001), Num(171760))
  /\ parse_ret = "false"
  /\ info.baro_altitude_true = <<50000>>
  /\ info.true_airspeed = <<200000>>

\* C19: a $LXWP2 sentence in which mc, load factor or bugs does not parse is
\* rejected: ParseNMEA returns false, nothing is provided to the instrument
\* state and the mirror keeps its values
C19_PartialSettingsRejected ==
  [][\A line \in ParserLines :
       (/\ ParseNMEA(line)
        /\ line.checksum_ok /\ line.type = "$LXWP2"
        /\ \E k \in 1..3 : ~FieldAt(line, k).ok)
         => Untouched]_vars

C19_Witness ==
  /\ rx_line = Line(TRUE, "$LXWP2", <<Num(300), Num(130), Blank>>)
  /\ parse_ret = "false"
  /\ info.mac_cready = <<100>> /\ info.bugs = <<9000>>
  /\ vario_settings = [mc |-> 100, bugs |-> 1000, bal |-> 120,
                       uptodate |-> TRUE]

\* the message of the last CalculateCRC call followed by its CRC
Framed == Append(call.arg, call.result)

\* the CRC chained over the segments 1..j, j+1..k and k+1.. of msg
Chained(msg, j, k) ==
  CalculateCRC(SubSeq(msg, k + 1, Len(msg)),
    CalculateCRC(SubSeq(msg, j + 1, k),
      CalculateCRC(SubSeq(msg, 1, j), 255)))

\* C20: a message followed by its CRC (seed 0xFF) has the CRC 0, computed in
\* one piece or chained over any split into consecutive segments, each seeded
\* with the result of the one before
C20_TrailerZeroes ==
  call.fn = "CalculateCRC" =>
    /\ call.result \in 0..255
    /\ CalculateCRC(Framed, 255) = 0
    /\ \A k \in 0..Len(Framed) : \A j \in 0..k : Chained(Framed, j, k) = 0

C20_Witness ==
  /\ call.fn = "CalculateCRC" /\ call.arg = <<6, 105, 0>>
  /\ call.result = 240

\* ----------------------------------------------------- the bugs round trip

\* the device reports its bugs in whole percent, 0 to 100
MaxPercent == 100

\* "$LXWP2,1.0,1.2,p,,,,50": the device reports p percent of bugs
BugsLine(p) ==
  Line(TRUE, "$LXWP2", <<Num(100), Num(120), Num(100 * p), Blank, Blank,
                         Blank, Num(50)>>)

\* the sentences for every whole percentage
BugsLines == {BugsLine(p) : p \in 0..MaxPercent}

\* the device reports its bugs and the application hands the fraction it was
\* given back to PutBugs
NextBugs ==
  \/ \E line \in BugsLines : ParseNMEA(line)
  \/ info.bugs # <<>> /\ PutBugs(info.bugs[1])
  \/ Put_Send
  \/ Put_Return

SpecBugs == Init /\ [][NextBugs]_vars

\* the bugs field of the last $LXWP2, in hundredths of a percent
ReportedBugs == FieldAt(rx_line, 3).v

\* C21: the bugs percentage p of a $LXWP2 is provided as the fraction
\* (100 - p) / 100, and PutBugs called with that fraction stores p in the
\* mirror and writes p as the bugs field of its PFLX2, for every p in 0..100
C21_BugsRoundTrip ==
  (op = "PutBugs" /\ pc = "put_return") =>
    /\ info.bugs = <<10000 - ReportedBugs>>
    /\ vario_settings.bugs = ReportedBugs
    /\ ret = "true"
    /\ Len(port_out) = 1
    /\ Sent.bugs = ReportedBugs

\* PutBugs has written the 20 % the device reported and the application
\* provided as 0.8
C21_Witness ==
  /\ op = "PutBugs" /\ pc = "put_return" /\ ret = "true"
  /\ rx_line = BugsLine(20)
  /\ info.bugs = <<8000>>
  /\ vario_settings.bugs = 2000
  /\ Len(port_out) = 1 /\ Sent.bugs = 2000

\* ------------------------------------------------------------- termination

\* a step of the running ReadFlightList / DownloadFlight: every port call
\* returns within its timeout, so the foreground thread takes its next step
FlightStep ==
  \/ \E r \in BlockResponses :
       /\ LE16(r.header[3], r.header[4]) \in {block_id, NextBlockId(block_id)}
       /\ DownloadFlight_Attempt(r)
  \/ DownloadFlight_Write
  \/ DownloadFlight_End
  \/ \E r \in InfoResponses : ReadFlightList_Attempt(r)
  \/ ReadFlightList_End

\* the flight operations with a foreground thread that keeps running
SpecFlightsFair == Init /\ [][NextFlights]_vars /\ WF_vars(FlightStep)

\* C22: every call of ReadFlightList and of DownloadFlight returns, whatever
\* the device answers: handshakes, timeouts, flight counts, file sizes, and
\* blocks of any declared size with a valid CRC and the requested id
C22_Terminates == (pc # "idle") ~> (pc = "idle")

\* -------------------------------------------------------------- declaration

\* the waypoint slots of the declaration frame
MaxWaypoints == 12

\* how far past the slots the declarations handed to Declare go
ExtraWaypoints == 1

\* the frames of a declaration of `count` waypoints: the declaration frame,
\* one observation zone frame for each waypoint, the competition class frame
DeclarationFrames(count) == count + 2

\* the k-th exchange of a declaration goes as x, the others are acknowledged
OutcomeAt(k, fail_at, x) == IF k = fail_at THEN x ELSE Exchange("none", ACK)

\* SendDeclaration, SendObsZone ..., SendCompetitionClass from frame k on:
\* one WriteAndWaitForACK for each frame, the first failure ends the sequence
RECURSIVE SendFrames(_, _, _, _)
SendFrames(k, frames, fail_at, x) ==
  IF k > frames THEN [ret |-> "true", port |-> <<>>]
  ELSE LET o    == OutcomeAt(k, fail_at, x)
           r    == WriteAndWaitForACK(o)
           rest == SendFrames(k + 1, frames, fail_at, x)
       IN  IF r = "true"
             THEN [ret |-> rest.ret, port |-> PortCalls(o) \o rest.port]
             ELSE [ret |-> r, port |-> PortCalls(o)]

\* every waypoint count accepted but 0
Declare_NoUpperLimit(count, fail_at, x) ==
  IF count = 0
    THEN [ret |-> "false", port |-> <<>>]
    ELSE SendFrames(1, DeclarationFrames(count), fail_at, x)

\* Declare: a waypoint count outside 1..12 is rejected before the first frame
Declare(count, fail_at, x) ==
  IF count = 0 \/ count > MaxWaypoints
    THEN [ret |-> "false", port |-> <<>>]
    ELSE SendFrames(1, DeclarationFrames(count), fail_at, x)

\* the declarations and the one exchange of each that may fail (0: none)
DeclareArgs ==
  [count : 0..(MaxWaypoints + ExtraWaypoints),
   fail_at : 0..3 \cup {MaxWaypoints + 2},
   x : {Exchange("write", -1), Exchange("none", -1), Exchange("none", NACK)}]

Declared == [a \in DeclareArgs |-> Declare(a.count, a.fail_at, a.x)]

\* one call of Declare
Call_Declare(a) ==
  /\ call' = [fn |-> "Declare", arg |-> a, result |-> Declared[a]]
  /\ CallOnly

NextDeclare == \E a \in DeclareArgs : Call_Declare(a)

SpecDeclare == Init /\ [][NextDeclare]_vars

\* C23: a declaration of no waypoint or of more than 12 is rejected, with
\* result false, before anything is written to the port
C23_CountRejected ==
  (call.fn = "Declare" /\ (call.arg.count = 0 \/ call.arg.count > 12)) =>
    /\ call.result.ret = "false"
    /\ call.result.port = <<>>

\* a declaration of 13 waypoints was rejected and nothing written
C23_Witness ==
  /\ call.fn = "Declare" /\ call.arg.count = 13
  /\ call.result.ret = "false"
  /\ call.result.port = <<>>

\* ------------------------------------------------- the receiver is paused

\* ReadFlightList or DownloadFlight is between its first and last statement
InExchanges == pc \in {"dl_request", "dl_write", "dl_end", "rl_request", "rl_end"}

\* the receive thread took a line from the port
Received == rx_line' # rx_line \/ parse_ret' # parse_ret \/ info' # info

\* while ReadFlightList or DownloadFlight runs, the receive thread is paused
C24_Inv == InExchanges => (~rx_running /\ rx_pc = "idle")

\* the receive thread takes a line only while neither operation runs; an
\* operation starts only when none is running, and has paused the receive
\* thread when its first exchange is over
C24_Step ==
  /\ Received => (pc = "idle" /\ pc' = "idle" /\ rx_running)
  /\ (FgStep /\ pc' # "idle") => ~rx_running'
  /\ (op' # op \/ (pc = "idle" /\ FgStep)) =>
       (pc = "idle" /\ ~rx_running' /\ op' \in {"ReadFlightList", "DownloadFlight"})

\* C24: whenever ReadFlightList or DownloadFlight writes to or reads from the
\* port the receive thread is paused, and the exchanges of the two operations
\* never overlap
C24_ReceiverPaused == [](C24_Inv) /\ [][C24_Step]_vars

\* a block was received with the receive thread paused, after the receive
\* thread had taken a sentence
C24_Witness ==
  /\ Downloading /\ pc = "dl_write" /\ glb_exit = "ok"
  /\ ~rx_running
  /\ parse_ret = "true"

\* ---------------------------------------------------------------- progress

\* C25: every position DownloadFlight reports is the floor of
\* 100 * (1 - remaining / total) of the moment of the report, on downloads
\* that succeed and on downloads that abort; the positions never exceed 100
C25_ProgressIsPercentage ==
  (Downloading /\ file_size > 0) =>
    /\ progress = (100 * (file_size - bytes_remaining)) \div file_size
    /\ progress <= 100

\* ------------------------------------------------ the CRC gates the data

\* a response was acknowledged and read to its last byte
ReadWhole(r) == r.x = Exchange("none", ACK) /\ r.read = "ok"

\* the responses read whole whose chained CRC is not 0
BadCrcCounts == {r \in CountResponses : ReadWhole(r) /\ CountCRC[r] # 0}

BadCrcInfos == {r \in InfoResponses : ReadWhole(r) /\ InfoCRC[r] # 0}

BadCrcBlocks == {r \in BlockResponses : ReadWhole(r) /\ BlockCRC[r] # 0}

\* the block about to be written is the one of an attempt that passed the
\* CRC check
C26_Inv == pc = "dl_write" => (glb_exit = "ok" /\ success)

\* a response whose chained CRC is not 0 makes the attempt a failed one: the
\* flight count stays 0 and no flight is asked for, the list is not appended
\* to, the sink is not written and the block is not handed to the write
C26_Step ==
  /\ (pc = "idle" /\ pc' \in {"rl_request", "rl_end"}) =>
       \A r \in BadCrcCounts :
         ReadFlightList_Begin(r) =>
           (flight_count' = 0 /\ ~success' /\ pc' = "rl_end"
              /\ flight_list' = <<>>)
  /\ (pc = "rl_request" /\ FgStep) =>
       \A r \in BadCrcInfos :
         ReadFlightList_Attempt(r) =>
           (flight_list' = flight_list /\ i' = i /\ ~success'
              /\ attempt' = attempt + 1)
  /\ (pc = "dl_request" /\ FgStep) =>
       \A r \in BadCrcBlocks :
         DownloadFlight_Attempt(r) =>
           (bos' = bos /\ bytes_remaining' = bytes_remaining /\ ~success'
              /\ attempt' = attempt + 1 /\ pc' # "dl_write")

\* C26: the data of a binary response is used only if the CRC chained over
\* the response is 0: otherwise the flight count is not used, the flight is
\* not appended to the list, the block is not appended to the sink, and the
\* attempt counts as failed
C26_CrcGatesData == [](C26_Inv) /\ [][C26_Step]_vars

\* a block with the requested id and a wrong CRC byte was received and the
\* sink left as it was
C26_Witness ==
  /\ Downloading /\ pc = "dl_request" /\ glb_exit = "crc"
  /\ block = <<65>> /\ bos = <<>>
  /\ attempt = 1 /\ ~success

\* ------------------------------------------------ vario and wind of $LXWP0

\* "$LXWP0,Y,<tas>,1717.6,<six samples>,,,<direction>,<speed>"
VarioLine(tas, samples, direction, speed) ==
  Line(TRUE, "$LXWP0",
       <<Blank, tas, Num(171760)>> \o samples \o <<Blank, Blank, direction, speed>>)

\* six samples that parse, in hundredths of m/s
Samples == {<<10, 20, 30, 40, 50, 60>>, <<-150, 0, 25, 300, 2, 2>>}

\* the samples s as fields, those at the positions in blanks empty
SampleFields(s, blanks) ==
  [k \in 1..6 |-> IF k \in blanks THEN Blank ELSE Num(s[k])]

\* all six samples present, one missing, the last two missing, none present
VarioFields ==
  {SampleFields(s, {}) : s \in Samples}
  \cup {SampleFields(<<10, 20, 30, 40, 50, 60>>, {k}) : k \in 1..6}
  \cup {SampleFields(<<10, 20, 30, 40, 50, 60>>, {5, 6}),
        SampleFields(<<10, 20, 30, 40, 50, 60>>, 1..6)}

\* wind direction (hundredths of a degree) and speed (hundredths of km/h):
\* both, one of them, none
WindFields ==
  {<<Num(9000), Num(1070)>>, <<Num(18000), Num(2000)>>, <<Blank, Num(1070)>>,
   <<Num(9000), Blank>>, <<Blank, Blank>>}

\* the telemetry sentences: accepted ones, and one with an implausible airspeed
VarioLines ==
  {VarioLine(Num(11940), s, w[1], w[2]) : s \in VarioFields, w \in WindFields}
  \cup {VarioLine(Num(50000), SampleFields(<<10, 20, 30, 40, 50, 60>>, {}),
                  Num(9000), Num(1070))}

NextTelemetry == \E line \in VarioLines : ParseNMEA(line)

SpecTelemetry == Init /\ [][NextTelemetry]_vars

\* ParseNMEA hands the line to LXWP0 and LXWP0 does not reject it
AcceptedLXWP0(line) ==
  /\ line.checksum_ok /\ line.type = "$LXWP0"
  /\ ~(FieldAt(line, 2).ok
         /\ (FieldAt(line, 2).v < -5000 \/ FieldAt(line, 2).v > 40000))

\* C27: for an accepted $LXWP0 the filtered vario is provided exactly when
\* all six samples parse, and is then their dot product with
\* -0.0421, 0.1628, 0.3793, 0.3793, 0.1628, -0.0421
C27_VarioIsDotProduct ==
  [][LET line == rx_line'
      IN  (ParseNMEA(line) /\ AcceptedLXWP0(line)) =>
         IF \A k \in 4..9 : FieldAt(line, k).ok
           THEN info'.total_energy_vario =
                  << -421 * FieldAt(line, 4).v + 1628 * FieldAt(line, 5).v
                     + 3793 * FieldAt(line, 6).v + 3793 * FieldAt(line, 7).v
                     + 1628 * FieldAt(line, 8).v - 421 * FieldAt(line, 9).v >>
           ELSE info'.total_energy_vario = info.total_energy_vario]_vars

\* the samples 0.1 ... 0.6 m/s were filtered to 0.35 m/s, then a sentence
\* with its fourth sample missing left the vario as it was
C27_Witness ==
  /\ rx_line = VarioLine(Num(11940), SampleFields(<<10, 20, 30, 40, 50, 60>>, {4}),
                         Num(9000), Num(1070))
  /\ parse_ret = "true"
  /\ info.total_energy_vario = <<350000>>

\* C28: for an accepted $LXWP0 the wind is read from the two fields after the
\* six samples, the heading and the extra field, whether or not the fields
\* before them parsed, and is provided only when both parse
C28_WindAtFixedFields ==
  [][LET line == rx_line'
      IN  (ParseNMEA(line) /\ AcceptedLXWP0(line)) =>
         IF FieldAt(line, 12).ok /\ FieldAt(line, 13).ok
           THEN info'.external_wind =
                  <<[bearing |-> FieldAt(line, 12).v,
                     norm |-> 5 * FieldAt(line, 13).v]>>
           ELSE info'.external_wind = info.external_wind]_vars

\* ------------------------------------------- values of rejected commands

\* the pilot raises the MacCready by 0.4 m/s and the bugs by 10 % from what
\* the device last reported
McStep == 40

BugsStep == 1000

\* what the pilot sets before the device reported anything
BlindMacCready == 250

BlindBugs == 7000

\* the MacCready the pilot sets: 0.4 m/s above the one last provided
PilotSetsMacCready ==
  IF info.mac_cready = <<>> THEN BlindMacCready
  ELSE info.mac_cready[1] + McStep

\* the bugs fraction the pilot sets: 10 % of bugs more than last provided
PilotSetsBugs ==
  IF info.bugs = <<>> THEN BlindBugs ELSE info.bugs[1] - BugsStep

\* the pilot's commands, rejected while the settings are unknown, against
\* link timeouts and the device's $LXWP2
NextStale ==
  \/ LinkTimeout
  \/ PutMacCready(PilotSetsMacCready)
  \/ PutBugs(PilotSetsBugs)
  \/ Put_Send
  \/ Put_Return
  \/ \E line \in MirrorLines : LXWP2_Lock(line)
  \/ LXWP2_Store
  \/ LXWP2_Return
  \/ \E line \in MirrorLines : ~TakesLock(line) /\ ParseNMEA(line)

SpecStale == Init /\ [][NextStale]_vars

\* C29: a value a rejected PutMacCready / PutBugs wrote into the mirror is
\* never transmitted: the mc and the bugs of every PFLX2 written are those of
\* the most recent parsed $LXWP2 or those of a PutMacCready / PutBugs called
\* after it
C29_NoStaleValueSent ==
  HasSent =>
    /\ info.mac_cready # <<>> /\ info.bugs # <<>>
    /\ Sent.mc \in {Round(info.mac_cready[1], 10),
                    Round(info.mac_cready[1] + McStep, 10)}
    /\ Sent.bugs \in {Round(10000 - info.bugs[1], 100),
                      Round(10000 - info.bugs[1] + BugsStep, 100)}

\* PutBugs wrote a sentence with the MacCready 2.0 of the last $LXWP2 and the
\* bugs the pilot set after it
C29_Witness ==
  /\ HasSent /\ op = "PutBugs"
  /\ info.mac_cready = <<200>> /\ info.bugs = <<7000>>
  /\ Sent.mc = 200 /\ Sent.bugs = 4000

\* ---------------------------------------------------- rejected commands

\* PutMacCready or PutBugs is called while the settings are unknown
RejectedCall == pc = "idle" /\ pc' = "put_send" /\ ~vario_settings.uptodate

\* PutMacCready or PutBugs runs on after its assignment, the settings unknown
RejectedStep ==
  /\ pc \in {"put_send", "put_return"} /\ FgStep
  /\ op \in {"PutMacCready", "PutBugs"}
  /\ ~vario_settings.uptodate

\* C30 as stated: a PutMacCready or PutBugs that is rejected because uptodate
\* is false leaves mc, bugs, ballast and uptodate of the mirror as they were
C30_RejectedLeavesMirror ==
  [][(RejectedCall \/ RejectedStep) => vario_settings' = vario_settings]_vars

\* C30, amended: a PutMacCready or PutBugs that is rejected because uptodate
\* is false writes nothing and returns false; the mirror then holds the new
\* value in the targeted field (mc, bugs), and its other fields and uptodate
\* are as they were
C30_RejectedKeepsOthers ==
  [][/\ RejectedCall =>
          /\ op' = "PutMacCready" =>
               vario_settings' = [vario_settings EXCEPT !.mc = 240]
          /\ op' = "PutBugs" =>
               vario_settings' = [vario_settings EXCEPT !.bugs = 2000]
     /\ RejectedStep =>
          /\ vario_settings' = vario_settings
          /\ port_out' = <<>>
          /\ pc = "put_send" => ret' = "false"
          /\ pc = "put_return" => ret' = "false"]_vars

\* PutBugs(0.8) was rejected after a link timeout: nothing written, bugs 20 %
\* in the mirror next to the MacCready and load factor of the last $LXWP2
C30_Witness ==
  /\ op = "PutBugs" /\ pc = "put_return" /\ ret = "false"
  /\ port_out = <<>>
  /\ vario_settings = [mc |-> 200, bugs |-> 2000, bal |-> 150,
                       uptodate |-> FALSE]

\* ---------------------------------------------------- CopyStringSpacePadded

\* the longest source string and the longest destination buffer
MaxSrcLen == 3

MaxDestLen == 4

\* '\x20'
SPACE == 32

\* what a byte around and in dest holds before the call
Unwritten == 255

\* the characters of the source strings
SrcChars == {65, 66}

\* the bytes dest[-1] .. dest[MaxDestLen]: the buffer and the bytes next to it
DestCells == -1..MaxDestLen

\* src[at]: the characters, the terminating NUL, and past it whatever the
\* memory holds (beyond)
SrcAt(chars, beyond, at) ==
  IF at < Len(chars) THEN chars[at + 1]
  ELSE IF at = Len(chars) THEN 0
  ELSE beyond

\* lines 123-128: the loop from index at on; m is dest, the indices written
\* and the indices of src read so far
RECURSIVE CopyLoop(_, _, _, _, _, _)
CopyLoop(chars, beyond, len, at, src_end_reached, m) ==
  IF ~(at < len - 1) THEN m
  ELSE LET c    == SrcAt(chars, beyond, at)
           end2 == src_end_reached \/ c = 0
           m2   == [dest    |-> [m.dest EXCEPT ![at] = IF end2 THEN SPACE ELSE c],
                    written |-> m.written \cup {at},
                    read    |-> IF src_end_reached THEN m.read
                                ELSE m.read \cup {at}]
       IN  CopyLoop(chars, beyond, len, at + 1, end2, m2)

\* the terminating NUL left out
CopyStringSpacePadded_Unterminated(chars, beyond, len) ==
  CopyLoop(chars, beyond, len, 0, FALSE,
           [dest |-> [k \in DestCells |-> Unwritten], written |-> {},
            read |-> {}])

\* lines 122-130: dest afterwards, the indices of dest written and of src read
CopyStringSpacePadded(chars, beyond, len) ==
  LET m == CopyLoop(chars, beyond, len, 0, FALSE,
                    [dest |-> [k \in DestCells |-> Unwritten], written |-> {},
                     read |-> {}])
  IN  [dest    |-> [m.dest EXCEPT ![len - 1] = 0],
       written |-> m.written \cup {len - 1},
       read    |-> m.read]

\* the source strings, the byte after their NUL, and the buffer lengths
CopyArgs ==
  [chars : UNION {SeqsOfLen(SrcChars, n) : n \in 0..MaxSrcLen},
   beyond : {0, 88},
   len : 0..MaxDestLen]

Copied == [a \in CopyArgs |-> CopyStringSpacePadded(a.chars, a.beyond, a.len)]

\* one call of CopyStringSpacePadded
Call_CopyStringSpacePadded(a) ==
  /\ call' = [fn |-> "CopyStringSpacePadded", arg |-> a, result |-> Copied[a]]
  /\ CallOnly

NextCopy == \E a \in CopyArgs : Call_CopyStringSpacePadded(a)

SpecCopy == Init /\ [][NextCopy]_vars

\* the number of characters copied: min(length of src, len - 1)
CopiedChars(a) == IF Len(a.chars) < a.len - 1 THEN Len(a.chars) ELSE a.len - 1

\* C31: CopyStringSpacePadded with len >= 1 writes exactly dest[0..len-1]:
\* first the leading min(length of src, len - 1) characters of src, then
\* spaces up to index len - 2, and 0x00 at index len - 1; it reads src no
\* further than its terminating NUL
C31_SpacePadded ==
  (call.fn = "CopyStringSpacePadded" /\ call.arg.len >= 1) =>
    LET a == call.arg
        r == call.result
        n == CopiedChars(a)
    IN  /\ \A k \in 0..(n - 1) : r.dest[k] = a.chars[k + 1]
        /\ \A k \in n..(a.len - 2) : r.dest[k] = 32
        /\ r.dest[a.len - 1] = 0
        /\ r.written = 0..(a.len - 1)
        /\ \A k \in DestCells \ (0..(a.len - 1)) : r.dest[k] = Unwritten
        /\ r.read \subseteq 0..Len(a.chars)

\* "A" copied into 4 bytes: 'A', two spaces, NUL, src read up to its NUL
C31_Witness ==
  /\ call.fn = "CopyStringSpacePadded"
  /\ call.arg.chars = <<65>> /\ call.arg.len = 4
  /\ \A k \in 0..3 : call.result.dest[k] = <<65, 32, 32, 0>>[k + 1]
  /\ call.result.written = 0..3
  /\ call.result.read = {0, 1}

====
